---- MODULE Spec2Model ----
(***************************************************************************)
(* Reminder scheduling engine of the study planner: the useNotifications   *)
(* hook (src/project/src/hooks/useSchedules.ts, lines 355-557), the        *)
(* useRevisionItems hook that drives it (lines 123-354) and the handlers   *)
(* of the revision page (src/project/src/components/revision/              *)
(* RevisionSystem.tsx).                                                    *)
(*                                                                         *)
(* Time is counted in whole seconds since the epoch; every instant and     *)
(* every delay the model draws is a whole number of seconds, so the        *)
(* millisecond constants of the source appear here divided by 1000.        *)
(***************************************************************************)
EXTENDS Integers, Sequences, FiniteSets, TLC

\* ------------------------------------------------------------------ bounds
Ids == {"A", "B"}
MaxHandles == 2
MaxAdvances == 1
StartTime == 86400
MaxReviewCount == 5
MaxTicks == 3
MaxHookHandles == 4

\* ------------------------------------------------------- program constants
\* 7 * 24 * 60 * 60 * 1000 ms
Horizon == 7 * 24 * 60 * 60
\* 5 * 60 * 1000 ms
CheckPeriod == 5 * 60
\* largest delay the host timer represents: floor((2^31 - 1) ms / 1000)
MaxTimeout == 2147483

\* 24 * 60 * 60 * 1000 ms
Day == 24 * 60 * 60
\* [3600000, 86400000, 259200000, 604800000, 1209600000] ms
intervals == <<3600, 86400, 259200, 604800, 1209600>>

Perms == {"default", "granted", "denied"}
NoTimeout == 0

\* ------------------------------------------------------------ JS numbers
Num(v) == [nan |-> FALSE, v |-> v]
NaN == [nan |-> TRUE, v |-> 0]
Sub(a, b) == IF a.nan \/ b.nan THEN NaN ELSE Num(a.v - b.v)
Leq(a, b) == ~a.nan /\ ~b.nan /\ a.v <= b.v

\* ----------------------------------------------------- next_review values
Iso(t) == [kind |-> "iso", t |-> t]
Undefined == [kind |-> "undefined", t |-> 0]
Null == [kind |-> "null", t |-> 0]
Garbage == [kind |-> "garbage", t |-> 0]

\* new Date(x).getTime()
DateGetTime(x) ==
  CASE x.kind = "iso" -> Num(x.t)
    [] x.kind = "null" -> Num(0)
    [] OTHER -> NaN

\* truthiness of a next_review value
Truthy(x) == x.kind \in {"iso", "garbage"}

\* --------------------------------------------------------------- inputs
ReviewOffsets == {0 - 600, 0, 7200, Horizon, Horizon + 1}
NextReviews(t) == {Iso(t + o) : o \in ReviewOffsets} \cup {Undefined, Null, Garbage}
SweepReviews == {Iso(StartTime - 600), Iso(StartTime + 7200), Undefined}
Delays == {0, 7200, 30 * 24 * 60 * 60}
TimerSteps == {7200}
SweepSteps == {CheckPeriod, 7200}
ReviewSteps == {3600, Day}
\* the form's "First Reminder (minutes)": from 1 to 1440, 60 unless edited
FormDelays == {1, 60, 1440}

Item(id, nr) == [id |-> id, next_review |-> nr]
\* a row of revision_items; the title of an item is written as its id
RevisionItem(id, nr, n) == [id |-> id, next_review |-> nr, review_count |-> n]
\* item ids are unique; a list names A before B
ItemLists ==
  {<<>>}
  \cup {<<Item(i, r)>> : i \in Ids, r \in SweepReviews}
  \cup {<<Item("A", r), Item("B", q)>> : r \in SweepReviews, q \in SweepReviews}

\* next-review instants of the rows the item hook loads at time t
HookReviews(t) == {Iso(t - 600), Iso(t + 7200), Iso(t + Horizon + 1), Undefined}
\* the rows the item hook loads at time t
HookLists(t) ==
  {<<>>}
  \cup {<<RevisionItem(i, r, 0)>> : i \in Ids, r \in HookReviews(t)}
  \cup {<<RevisionItem("A", r, 0), RevisionItem("B", q, 0)>> :
          r \in HookReviews(t), q \in HookReviews(t)}

\* the rows a fetch returns at time t: items awaiting review, newest first
FetchedLists(t) ==
  {<<>>}
  \cup {<<RevisionItem(i, Iso(t - 600), n)>> : i \in Ids, n \in 0..MaxReviewCount}
  \cup {<<RevisionItem("A", Iso(t - 600), n), RevisionItem("B", Iso(t - 600), 0)>> :
          n \in 0..MaxReviewCount}

VARIABLES
  hasNotification,          \* 'Notification' in window
  hostPermission,           \* Notification.permission
  mounted,                  \* the mount effect has run
  permission,               \* useState permission
  checkIntervalRef,         \* useRef: handle of the periodic check, or NoTimeout
  notificationTimeoutsRef,  \* useRef Map: id -> handle, NoTimeout when absent
  hostTimeouts,             \* armed setTimeout callbacks
  hostIntervals,            \* armed setInterval callbacks
  nextHandle,               \* next handle the host hands out
  now,                      \* Date.now()
  advances,                 \* number of clock steps taken
  stopFnIssued,             \* a cleanup function of startPeriodicCheck exists
  retired,                  \* handles removed from the registry other than by their own firing
  sweepStopped,             \* stopAllNotifications ran and no periodic check was started since
  lastOp,                   \* the operation that produced this state
  revisionItems,            \* useRevisionItems: useState items
  loading,                  \* useRevisionItems: useState loading
  rsPermission,             \* RevisionSystem's own useNotifications: useState permission
  rsNotificationTimeoutsRef \* RevisionSystem's own useNotifications: useRef Map

envVars == <<hasNotification, hostPermission>>
hookVars == <<mounted, permission, checkIntervalRef, notificationTimeoutsRef, stopFnIssued>>
hostVars == <<hostTimeouts, hostIntervals, nextHandle>>
clockVars == <<now, advances>>
histVars == <<retired, sweepStopped, lastOp>>
pageVars == <<revisionItems, loading, rsPermission, rsNotificationTimeoutsRef>>
vars == <<envVars, hookVars, hostVars, clockVars, histVars, pageVars>>

\* ------------------------------------------------- the state the hook edits
St ==
  [reg |-> notificationTimeoutsRef, ref |-> checkIntervalRef,
   timeouts |-> hostTimeouts, intervals |-> hostIntervals,
   nh |-> nextHandle,
   retired |-> retired, emits |-> <<>>]

\* the state s becomes the state of the hook and of the host
Assign(s) ==
  /\ notificationTimeoutsRef' = s.reg
  /\ checkIntervalRef' = s.ref
  /\ hostTimeouts' = s.timeouts
  /\ hostIntervals' = s.intervals
  /\ nextHandle' = s.nh
  /\ retired' = s.retired

\* s becomes the state, the host having handed out at most maxHandles handles
CommitWithin(s, maxHandles) ==
  /\ s.nh <= maxHandles + 1
  /\ Assign(s)

Commit(s) == CommitWithin(s, MaxHandles)

Op(name) ==
  [op |-> name, id |-> "", nr |-> Undefined, delay |-> 0, perm |-> "default",
   items |-> <<>>, ret |-> <<>>, emits |-> <<>>, h |-> NoTimeout, prev |-> NoTimeout,
   prevDue |-> 0, count |-> 0, result |-> "", rsPerm |-> "default", rsEmits |-> <<>>,
   effect |-> FALSE, effectEmits |-> <<>>, callReg |-> [i \in Ids |-> NoTimeout]]

\* ------------------------------------------------------------ host timers
\* setTimeout(cb, delay): a delay above the host's 32-bit limit wraps and the
\* callback is due at once; a negative delay counts as 0
HostDelay(d) == IF d > MaxTimeout \/ d < 0 THEN 0 ELSE d

\* clearTimeout(h) / clearInterval(h)
ClearTimeout(s, h) == [s EXCEPT !.timeouts = {t \in @ : t.h # h}]
ClearInterval(s, h) == [s EXCEPT !.intervals = {t \in @ : t.h # h}]

\* ------------------------------------------------------- useNotifications
\* showNotification(title, body, {tag}) called from a closure that saw perm:
\* emits records the tag of every Notification constructed.  The notification
\* object and the 10 s timer that closes it belong to the presentation layer
\* and carry no state of the engine.
showNotification(s, perm, tag) ==
  IF perm = "granted" /\ hasNotification
  THEN [s EXCEPT !.emits = Append(@, tag)]
  ELSE s

\* scheduleNotification that installs the new timer without clearing the old one
scheduleNotification_NoClear(s, perm, id, delay, t) ==
  IF perm # "granted" THEN s
  ELSE [s EXCEPT
          !.timeouts = @ \cup {[h |-> s.nh, id |-> id,
                                due |-> t + HostDelay(delay), perm |-> perm]},
          !.nh = @ + 1,
          !.reg = [@ EXCEPT ![id] = s.nh],
          !.retired = IF s.reg[id] # NoTimeout THEN @ \cup {s.reg[id]} ELSE @]

\* scheduleNotification that keeps a timer already pending for the id
scheduleNotification_KeepFirst(s, perm, id, delay, t) ==
  IF perm # "granted" \/ s.reg[id] # NoTimeout THEN s
  ELSE [s EXCEPT
          !.timeouts = @ \cup {[h |-> s.nh, id |-> id,
                                due |-> t + HostDelay(delay), perm |-> perm]},
          !.nh = @ + 1,
          !.reg = [@ EXCEPT ![id] = s.nh]]

\* scheduleNotification without the permission check
scheduleNotification_NoGate(s, perm, id, delay, t) ==
  LET s1 == IF s.reg[id] # NoTimeout
            THEN [ClearTimeout(s, s.reg[id]) EXCEPT !.retired = @ \cup {s.reg[id]}]
            ELSE s
  IN [s1 EXCEPT
        !.timeouts = @ \cup {[h |-> s1.nh, id |-> id,
                              due |-> t + HostDelay(delay), perm |-> perm]},
        !.nh = @ + 1,
        !.reg = [@ EXCEPT ![id] = s1.nh]]

\* scheduleNotification(id, title, body, delay, onClick)
scheduleNotification(s, perm, id, delay, t) ==
  IF perm # "granted" THEN s
  ELSE
    LET existingTimeout == s.reg[id]
        s1 == IF existingTimeout # NoTimeout
              THEN [ClearTimeout(s, existingTimeout) EXCEPT !.retired = @ \cup {existingTimeout}]
              ELSE s
        timeout == s1.nh
    IN [s1 EXCEPT
          !.timeouts = @ \cup {[h |-> timeout, id |-> id,
                                due |-> t + HostDelay(delay), perm |-> perm]},
          !.nh = @ + 1,
          !.reg = [@ EXCEPT ![id] = timeout]]

\* the timer callback without notificationTimeoutsRef.current.delete(id)
timeoutCallback_KeepEntry(s, tm) ==
  showNotification(s, tm.perm, tm.id)

\* the callback scheduleNotification hands to setTimeout, run for timer tm
timeoutCallback(s, tm) ==
  LET s1 == showNotification(s, tm.perm, tm.id)
  IN [s1 EXCEPT !.reg = [@ EXCEPT ![tm.id] = NoTimeout]]

\* cancelNotification deleting the map entry without clearTimeout
cancelNotification_MapOnly(s, id) ==
  LET timeout == s.reg[id]
  IN IF timeout # NoTimeout
     THEN [s EXCEPT !.reg = [@ EXCEPT ![id] = NoTimeout],
                    !.retired = @ \cup {timeout}]
     ELSE s

\* cancelNotification clearing every timeout it holds when the id has none
cancelNotification_ClearsAll(s, id) ==
  LET timeout == s.reg[id]
  IN IF timeout # NoTimeout
     THEN [ClearTimeout(s, timeout) EXCEPT
             !.reg = [@ EXCEPT ![id] = NoTimeout],
             !.retired = @ \cup {timeout}]
     ELSE [s EXCEPT !.timeouts = {},
                    !.reg = [i \in Ids |-> NoTimeout],
                    !.retired = @ \cup {tm.h : tm \in s.timeouts}]

\* cancelNotification(id)
cancelNotification(s, id) ==
  LET timeout == s.reg[id]
  IN IF timeout # NoTimeout
     THEN [ClearTimeout(s, timeout) EXCEPT
             !.reg = [@ EXCEPT ![id] = NoTimeout],
             !.retired = @ \cup {timeout}]
     ELSE s

\* scheduleRevisionReminder testing delay < 0 for an overdue item
scheduleRevisionReminder_StrictOverdue(s, perm, itemId, nextReviewTime, t) ==
  LET delay == Sub(DateGetTime(nextReviewTime), Num(t))
  IN IF Leq(delay, Num(0 - 1))
     THEN showNotification(s, perm, itemId)
     ELSE IF Leq(delay, Num(Horizon))
          THEN scheduleNotification(s, perm, itemId, delay.v, t)
          ELSE s

\* scheduleRevisionReminder testing delay < 7 days for the horizon
scheduleRevisionReminder_HorizonExclusive(s, perm, itemId, nextReviewTime, t) ==
  LET delay == Sub(DateGetTime(nextReviewTime), Num(t))
  IN IF Leq(delay, Num(0))
     THEN showNotification(s, perm, itemId)
     ELSE IF Leq(delay, Num(Horizon - 1))
          THEN scheduleNotification(s, perm, itemId, delay.v, t)
          ELSE s

\* scheduleRevisionReminder that cancels the pending timer of an overdue item
scheduleRevisionReminder_CancelsPending(s, perm, itemId, nextReviewTime, t) ==
  LET delay == Sub(DateGetTime(nextReviewTime), Num(t))
  IN IF Leq(delay, Num(0))
     THEN showNotification(cancelNotification(s, itemId), perm, itemId)
     ELSE IF Leq(delay, Num(Horizon))
          THEN scheduleNotification(s, perm, itemId, delay.v, t)
          ELSE s

\* scheduleRevisionReminder(itemId, itemTitle, nextReviewTime)
scheduleRevisionReminder(s, perm, itemId, nextReviewTime, t) ==
  LET nextReview == DateGetTime(nextReviewTime)
      delay == Sub(nextReview, Num(t))
  IN IF Leq(delay, Num(0))
     THEN showNotification(s, perm, itemId)
     ELSE IF Leq(delay, Num(Horizon))
          THEN scheduleNotification(s, perm, itemId, delay.v, t)
          ELSE s

\* the filter with next_review < now
overdueItems_Strict(items, t) ==
  SelectSeq(items, LAMBDA item :
    Truthy(item.next_review) /\ Leq(DateGetTime(item.next_review), Num(t - 1)))

\* items.filter(item => item.next_review && new Date(item.next_review) <= now)
overdueItems(items, t) ==
  SelectSeq(items, LAMBDA item :
    Truthy(item.next_review) /\ Leq(DateGetTime(item.next_review), Num(t)))

\* overdueItems.forEach(item => showNotification(..., {tag: item.id}))
RECURSIVE showAll(_, _, _)
showAll(s, perm, items) ==
  IF items = <<>> THEN s
  ELSE showAll(showNotification(s, perm, Head(items).id), perm, Tail(items))

\* checkOverdueItems(items): the state after the forEach; it returns overdueItems
checkOverdueItems(s, perm, items, t) == showAll(s, perm, overdueItems(items, t))

\* startPeriodicCheck that arms a new interval without clearing the old one
startPeriodicCheck_NoClear(s, perm, items, t) ==
  LET s2 == checkOverdueItems(s, perm, items, t)
  IN [s2 EXCEPT
        !.intervals = @ \cup {[h |-> s2.nh, items |-> items, perm |-> perm,
                               due |-> t + CheckPeriod]},
        !.nh = @ + 1,
        !.ref = s2.nh]

\* startPeriodicCheck that first drops every pending reminder timer
startPeriodicCheck_DropsTimers(s, perm, items, t) ==
  LET handles == {s.reg[i] : i \in Ids} \ {NoTimeout}
      s1 == [(IF s.ref # NoTimeout THEN ClearInterval(s, s.ref) ELSE s) EXCEPT
               !.timeouts = {tm \in @ : tm.h \notin handles},
               !.reg = [i \in Ids |-> NoTimeout],
               !.retired = @ \cup handles]
      s2 == checkOverdueItems(s1, perm, items, t)
  IN [s2 EXCEPT
        !.intervals = @ \cup {[h |-> s2.nh, items |-> items, perm |-> perm,
                               due |-> t + CheckPeriod]},
        !.nh = @ + 1,
        !.ref = s2.nh]

\* startPeriodicCheck whose interval sweeps only the items its immediate pass
\* did not notify
startPeriodicCheck_SkipsNotified(s, perm, items, t) ==
  LET s1 == IF s.ref # NoTimeout THEN ClearInterval(s, s.ref) ELSE s
      s2 == checkOverdueItems(s1, perm, items, t)
      h == s2.nh
      rest == SelectSeq(items, LAMBDA item :
                ~(Truthy(item.next_review) /\ Leq(DateGetTime(item.next_review), Num(t))))
  IN [s2 EXCEPT
        !.intervals = @ \cup {[h |-> h, items |-> rest, perm |-> perm,
                               due |-> t + CheckPeriod]},
        !.nh = @ + 1,
        !.ref = h]

\* startPeriodicCheck(items)
startPeriodicCheck(s, perm, items, t) ==
  LET s1 == IF s.ref # NoTimeout THEN ClearInterval(s, s.ref) ELSE s
      s2 == checkOverdueItems(s1, perm, items, t)
      h == s2.nh
  IN [s2 EXCEPT
        !.intervals = @ \cup {[h |-> h, items |-> items, perm |-> perm,
                               due |-> t + CheckPeriod]},
        !.nh = @ + 1,
        !.ref = h]

\* a cleanup function that clears the interval and leaves the ref set
stopChecking_KeepsRef(s) ==
  IF s.ref # NoTimeout
  THEN ClearInterval(s, s.ref)
  ELSE s

\* the cleanup function startPeriodicCheck returns
stopChecking(s) ==
  IF s.ref # NoTimeout
  THEN [ClearInterval(s, s.ref) EXCEPT !.ref = NoTimeout]
  ELSE s

\* stopAllNotifications that empties the map without clearing the host timers
stopAllNotifications_MapOnly(s) ==
  LET s1 == stopChecking(s)
  IN [s1 EXCEPT
        !.reg = [i \in Ids |-> NoTimeout],
        !.retired = @ \cup ({s1.reg[i] : i \in Ids} \ {NoTimeout})]

\* stopAllNotifications that clears the host timers and keeps the map entries
stopAllNotifications_KeepsEntries(s) ==
  LET s1 == stopChecking(s)
      handles == {s1.reg[i] : i \in Ids} \ {NoTimeout}
  IN [s1 EXCEPT
        !.timeouts = {t \in @ : t.h \notin handles},
        !.retired = @ \cup handles]

\* stopAllNotifications()
stopAllNotifications(s) ==
  LET s1 == stopChecking(s)
      handles == {s1.reg[i] : i \in Ids} \ {NoTimeout}
  IN [s1 EXCEPT
        !.timeouts = {t \in @ : t.h \notin handles},
        !.reg = [i \in Ids |-> NoTimeout],
        !.retired = @ \cup handles]

\* getScheduledCount()
getScheduledCount == Cardinality({i \in Ids : notificationTimeoutsRef[i] # NoTimeout})

\* fire time of the timer registered for id, 0 when none is
PendingDue(id) ==
  LET ts == {tm \in hostTimeouts : tm.h = notificationTimeoutsRef[id]}
  IN IF ts = {} THEN 0 ELSE (CHOOSE tm \in ts : TRUE).due

\* ------------------------------------------------------- useRevisionItems
\* the row supabase.rpc('increment_review_count', {item_id, next_review_date})
\* resolves to: the review count bumped once, next_review set to the instant
\* passed in
increment_review_count(item, next_review_date) ==
  [item EXCEPT !.review_count = @ + 1, !.next_review = next_review_date]

\* createItem(item), the insert returning a row with the fresh id: the state
\* of the hook's useNotifications after the call, the items and the row
createItem(s, perm, its, id, t) ==
  LET nextReview == Iso(t + Day)
      data == RevisionItem(id, nextReview, 0)
  IN [st |-> IF perm = "granted"
             THEN scheduleRevisionReminder(s, perm, data.id, data.next_review, t)
             ELSE s,
      items |-> <<data>> \o its,
      data |-> data]

\* markAsReviewed(id)
markAsReviewed(s, perm, its, id, t) ==
  LET nextReview == Iso(t + Day)
      old == its[CHOOSE k \in 1..Len(its) : its[k].id = id]
      data == increment_review_count(old, nextReview)
  IN [st |-> IF perm = "granted"
             THEN scheduleRevisionReminder(s, perm, data.id, data.next_review, t)
             ELSE s,
      items |-> [k \in 1..Len(its) |-> IF its[k].id = id THEN data ELSE its[k]],
      data |-> data]

\* items.forEach(item => { if (item.next_review) scheduleRevisionReminder(...) })
RECURSIVE scheduleAllNotifications(_, _, _, _)
scheduleAllNotifications(s, perm, its, t) ==
  IF its = <<>> THEN s
  ELSE LET item == Head(its)
           s1 == IF Truthy(item.next_review)
                 THEN scheduleRevisionReminder(s, perm, item.id, item.next_review, t)
                 ELSE s
       IN scheduleAllNotifications(s1, perm, Tail(its), t)

\* deleteItem that also cancels the timer pending for the item
deleteItem_CancelsTimer(s, its, id) ==
  [st |-> cancelNotification(s, id),
   items |-> SelectSeq(its, LAMBDA item : item.id # id)]

\* deleteItem(id) when the delete succeeds: setItems(prev => prev.filter(item
\* => item.id !== id)); no function of useNotifications is called
deleteItem(s, its, id) ==
  [st |-> s,
   items |-> SelectSeq(its, LAMBDA item : item.id # id)]

\* the effect on [items, permission] that starts the check and schedules
\* nothing for the items
itemsEffect_NoSchedule(s, hasCleanup, perm, its, t) ==
  LET s0 == IF hasCleanup THEN stopChecking(s) ELSE s
  IN IF Len(its) > 0 /\ perm = "granted"
     THEN startPeriodicCheck(s0, perm, its, t)
     ELSE s0

\* the effect on [items, permission], run in a render that sees perm and its:
\* the cleanup the run before it returned, if any, and then its body
itemsEffect(s, hasCleanup, perm, its, t) ==
  LET s0 == IF hasCleanup THEN stopChecking(s) ELSE s
  IN IF Len(its) > 0 /\ perm = "granted"
     THEN scheduleAllNotifications(startPeriodicCheck(s0, perm, its, t), perm, its, t)
     ELSE s0

\* the state and whether a cleanup is held once the effect has run on a
\* change of items or permission
afterRender(s, changed, hasCleanup, perm, its, t) ==
  IF changed
  THEN [st |-> itemsEffect(s, hasCleanup, perm, its, t),
        cleanup |-> Len(its) > 0 /\ perm = "granted"]
  ELSE [st |-> s, cleanup |-> hasCleanup]

\* --------------------------------------------------------- RevisionSystem
Min(a, b) == IF a <= b THEN a ELSE b

\* the lookup clamping the index to intervals.length - 2
nextInterval_ClampShort(review_count) ==
  intervals[Min(review_count, Len(intervals) - 2) + 1]

\* intervals[Math.min(item.review_count || 0, intervals.length - 1)]; a
\* sequence counts its elements from 1
nextInterval(review_count) ==
  intervals[Min(review_count, Len(intervals) - 1) + 1]

\* scheduleRevisionReminder of the page's own useNotifications: it keeps its
\* own map of timeouts and shares the host's timers with the other instance
rsScheduleRevisionReminder(s, rsPerm, rsReg, itemId, nextReviewTime, t) ==
  LET s2 == scheduleRevisionReminder([s EXCEPT !.reg = rsReg, !.emits = <<>>],
                                     rsPerm, itemId, nextReviewTime, t)
  IN [st |-> [s2 EXCEPT !.reg = s.reg, !.emits = s.emits],
      rsReg |-> s2.reg,
      rsEmits |-> s2.emits]

\* the page's call scheduleRevisionReminder(title, ms): the parameters
\* (itemId, itemTitle, nextReviewTime) receive (title, ms, undefined)
rsSchedule(s, rsPerm, rsReg, title, t) ==
  IF rsPerm = "granted"
  THEN rsScheduleRevisionReminder(s, rsPerm, rsReg, title, Undefined, t)
  ELSE [st |-> s, rsReg |-> rsReg, rsEmits |-> <<>>]

\* handleSubmit(e) with formData.customInitialReminderDelay = minutes
handleSubmit(s, perm, rsPerm, rsReg, its, id, minutes, t) ==
  LET result == createItem(s, perm, its, id, t)
      p == rsSchedule(result.st, rsPerm, rsReg, result.data.id, t)
  IN [st |-> p.st, items |-> result.items, data |-> result.data,
      rsReg |-> p.rsReg, rsEmits |-> p.rsEmits, delay |-> minutes * 60]

\* handleReview(item)
handleReview(s, perm, rsPerm, rsReg, its, item, t) ==
  LET result == markAsReviewed(s, perm, its, item.id, t)
      p == rsSchedule(result.st, rsPerm, rsReg, item.id, t)
  IN [st |-> p.st, items |-> result.items, data |-> result.data,
      rsReg |-> p.rsReg, rsEmits |-> p.rsEmits,
      delay |-> nextInterval(item.review_count)]

\* --------------------------------------------------------------- actions
Init ==
  /\ hasNotification \in BOOLEAN
  /\ hostPermission \in (IF hasNotification THEN Perms ELSE {"default"})
  /\ mounted = FALSE
  /\ permission = "default"
  /\ checkIntervalRef = NoTimeout
  /\ notificationTimeoutsRef = [i \in Ids |-> NoTimeout]
  /\ hostTimeouts = {}
  /\ hostIntervals = {}
  /\ nextHandle = 1
  /\ now = StartTime
  /\ advances = 0
  /\ stopFnIssued = FALSE
  /\ retired = {}
  /\ sweepStopped = FALSE
  /\ lastOp = Op("init")
  /\ revisionItems = <<>>
  /\ loading = TRUE
  /\ rsPermission = "default"
  /\ rsNotificationTimeoutsRef = [i \in Ids |-> NoTimeout]

\* useEffect(() => { if ('Notification' in window) setPermission(Notification.permission) }, [])
MountEffect ==
  /\ ~mounted
  /\ mounted' = TRUE
  /\ permission' = IF hasNotification THEN hostPermission ELSE permission
  /\ lastOp' = Op("mount")
  /\ UNCHANGED <<envVars, checkIntervalRef, notificationTimeoutsRef, stopFnIssued,
                 hostVars, clockVars, retired, sweepStopped, pageVars>>

\* requestPermission(): the host prompts only while its permission is "default"
CallRequestPermission ==
  /\ mounted
  /\ IF hasNotification
     THEN \E result \in (IF hostPermission = "default" THEN Perms ELSE {hostPermission}) :
            /\ hostPermission' = result
            /\ permission' = result
            /\ lastOp' = [Op("requestPermission") EXCEPT !.result = result]
     ELSE /\ UNCHANGED <<hostPermission, permission>>
          /\ lastOp' = [Op("requestPermission") EXCEPT !.result = "denied"]
  /\ UNCHANGED <<hasNotification, mounted, checkIntervalRef, notificationTimeoutsRef,
                 stopFnIssued, hostVars, clockVars, retired, sweepStopped, pageVars>>

\* the user changes the site's notification setting in the browser
HostPermissionChange ==
  /\ mounted
  /\ hasNotification
  /\ \E p \in Perms \ {hostPermission} : hostPermission' = p
  /\ lastOp' = Op("hostPermissionChange")
  /\ UNCHANGED <<hasNotification, hookVars, hostVars, clockVars, retired, sweepStopped,
                 pageVars>>

Frame == UNCHANGED <<envVars, mounted, permission, clockVars, pageVars>>

CallShowNotification ==
  /\ mounted
  /\ \E tag \in Ids :
       LET s == showNotification(St, permission, tag)
       IN /\ Commit(s)
          /\ lastOp' = [Op("showNotification") EXCEPT
                          !.id = tag, !.perm = permission, !.emits = s.emits]
  /\ Frame /\ UNCHANGED <<stopFnIssued, sweepStopped>>

CallScheduleNotification ==
  /\ mounted
  /\ \E id \in Ids, delay \in Delays :
       LET s == scheduleNotification(St, permission, id, delay, now)
       IN /\ Commit(s)
          /\ lastOp' = [Op("scheduleNotification") EXCEPT
                          !.id = id, !.delay = delay, !.perm = permission,
                          !.emits = s.emits, !.h = s.reg[id],
                          !.prev = notificationTimeoutsRef[id],
                          !.prevDue = PendingDue(id)]
  /\ Frame /\ UNCHANGED <<stopFnIssued, sweepStopped>>

CallCancelNotification ==
  /\ mounted
  /\ \E id \in Ids :
       LET s == cancelNotification(St, id)
       IN /\ Commit(s)
          /\ lastOp' = [Op("cancelNotification") EXCEPT
                          !.id = id, !.perm = permission,
                          !.prev = notificationTimeoutsRef[id]]
  /\ Frame /\ UNCHANGED <<stopFnIssued, sweepStopped>>

ScheduleRevisionReminderOf(reviews) ==
  /\ mounted
  /\ \E itemId \in Ids, nextReviewTime \in reviews :
       LET s == scheduleRevisionReminder(St, permission, itemId, nextReviewTime, now)
       IN /\ Commit(s)
          /\ lastOp' = [Op("scheduleRevisionReminder") EXCEPT
                          !.id = itemId, !.nr = nextReviewTime, !.perm = permission,
                          !.emits = s.emits, !.h = s.reg[itemId],
                          !.prev = notificationTimeoutsRef[itemId],
                          !.prevDue = PendingDue(itemId)]
  /\ Frame /\ UNCHANGED <<stopFnIssued, sweepStopped>>

\* next-review instants relative to the time of the call
CallScheduleRevisionReminder == ScheduleRevisionReminderOf(NextReviews(now))

\* next-review instants of the swept items
SweepScheduleRevisionReminder == ScheduleRevisionReminderOf(SweepReviews)

CallCheckOverdueItems ==
  /\ mounted
  /\ \E items \in ItemLists :
       LET s == checkOverdueItems(St, permission, items, now)
       IN /\ Commit(s)
          /\ lastOp' = [Op("checkOverdueItems") EXCEPT
                          !.items = items, !.perm = permission,
                          !.ret = overdueItems(items, now), !.emits = s.emits]
  /\ Frame /\ UNCHANGED <<stopFnIssued, sweepStopped>>

CallStartPeriodicCheck ==
  /\ mounted
  /\ \E items \in ItemLists :
       LET s == startPeriodicCheck(St, permission, items, now)
       IN /\ Commit(s)
          /\ lastOp' = [Op("startPeriodicCheck") EXCEPT
                          !.items = items, !.perm = permission,
                          !.emits = s.emits, !.h = s.ref, !.prev = checkIntervalRef,
                          !.count = IF lastOp.op = "startPeriodicCheck"
                                    THEN lastOp.count + 1 ELSE 1]
  /\ stopFnIssued' = TRUE
  /\ sweepStopped' = FALSE
  /\ Frame

CallStopChecking ==
  /\ mounted
  /\ stopFnIssued
  /\ Commit(stopChecking(St))
  /\ lastOp' = [Op("stopChecking") EXCEPT
                  !.prev = checkIntervalRef,
                  !.count = IF lastOp.op = "startPeriodicCheck" THEN lastOp.count ELSE 0]
  /\ Frame /\ UNCHANGED <<stopFnIssued, sweepStopped>>

CallStopAllNotifications ==
  /\ mounted
  /\ Commit(stopAllNotifications(St))
  /\ lastOp' = [Op("stopAllNotifications") EXCEPT
                  !.prev = checkIntervalRef, !.count = getScheduledCount]
  /\ sweepStopped' = TRUE
  /\ Frame /\ UNCHANGED stopFnIssued

\* the revision page mounts: the mount effect of the useNotifications of
\* useRevisionItems and that of the page's own run in the same commit
RevisionSystemMount ==
  /\ ~mounted
  /\ mounted' = TRUE
  /\ permission' = IF hasNotification THEN hostPermission ELSE permission
  /\ rsPermission' = IF hasNotification THEN hostPermission ELSE rsPermission
  /\ lastOp' = Op("mount")
  /\ UNCHANGED <<envVars, checkIntervalRef, notificationTimeoutsRef, stopFnIssued,
                 hostVars, clockVars, retired, sweepStopped, revisionItems, loading,
                 rsNotificationTimeoutsRef>>

\* useEffect(() => { if (permission === 'default') requestPermission() }) of the page
RsRequestPermission ==
  /\ mounted
  /\ rsPermission = "default"
  /\ IF hasNotification
     THEN \E result \in (IF hostPermission = "default" THEN Perms ELSE {hostPermission}) :
            /\ hostPermission' = result
            /\ rsPermission' = result
            /\ lastOp' = [Op("rsRequestPermission") EXCEPT !.result = result]
     ELSE /\ UNCHANGED <<hostPermission, rsPermission>>
          /\ lastOp' = [Op("rsRequestPermission") EXCEPT !.result = "denied"]
  /\ UNCHANGED <<hasNotification, hookVars, hostVars, clockVars, retired, sweepStopped,
                 revisionItems, loading, rsNotificationTimeoutsRef>>

\* fetchItems() resolves, before the first item is submitted
FetchItems ==
  /\ mounted
  /\ loading
  /\ revisionItems = <<>>
  /\ \E its \in FetchedLists(now) : revisionItems' = its
  /\ loading' = FALSE
  /\ lastOp' = Op("fetchItems")
  /\ UNCHANGED <<envVars, hookVars, hostVars, clockVars, retired, sweepStopped,
                 rsPermission, rsNotificationTimeoutsRef>>

PageFrame ==
  UNCHANGED <<envVars, mounted, permission, clockVars, stopFnIssued, sweepStopped,
              loading, rsPermission>>

\* the form is submitted and the insert succeeds
HandleSubmit ==
  /\ mounted
  /\ \E id \in Ids \ {revisionItems[k].id : k \in 1..Len(revisionItems)},
        minutes \in FormDelays :
       LET r == handleSubmit(St, permission, rsPermission, rsNotificationTimeoutsRef,
                             revisionItems, id, minutes, now)
       IN /\ Commit(r.st)
          /\ revisionItems' = r.items
          /\ rsNotificationTimeoutsRef' = r.rsReg
          /\ lastOp' = [Op("handleSubmit") EXCEPT
                          !.id = id, !.delay = r.delay, !.nr = r.data.next_review,
                          !.perm = permission, !.rsPerm = rsPermission,
                          !.emits = r.st.emits, !.rsEmits = r.rsEmits,
                          !.h = r.st.reg[id]]
  /\ PageFrame

\* an item of the list is marked as reviewed and the rpc succeeds
HandleReview ==
  /\ mounted
  /\ \E k \in 1..Len(revisionItems) :
       LET item == revisionItems[k]
           r == handleReview(St, permission, rsPermission, rsNotificationTimeoutsRef,
                             revisionItems, item, now)
       IN /\ item.review_count <= MaxReviewCount
          /\ Commit(r.st)
          /\ revisionItems' = r.items
          /\ rsNotificationTimeoutsRef' = r.rsReg
          /\ lastOp' = [Op("handleReview") EXCEPT
                          !.id = item.id, !.count = item.review_count,
                          !.delay = r.delay, !.nr = r.data.next_review,
                          !.perm = permission, !.rsPerm = rsPermission,
                          !.emits = r.st.emits, !.rsEmits = r.rsEmits,
                          !.h = r.st.reg[item.id],
                          !.prev = notificationTimeoutsRef[item.id]]
  /\ PageFrame

\* useRevisionItems mounts, once; its first effects find no items
HookMount ==
  /\ lastOp.op = "init"
  /\ MountEffect

\* fetchItems() resolves: setItems(data), and the effect on [items, permission] runs
HookFetchItems ==
  /\ mounted
  /\ loading
  /\ \E its \in HookLists(now) :
       LET r == afterRender(St, TRUE, stopFnIssued, permission, its, now)
       IN /\ CommitWithin(r.st, MaxHookHandles)
          /\ revisionItems' = its
          /\ stopFnIssued' = r.cleanup
          /\ lastOp' = [Op("fetchItems") EXCEPT
                          !.items = its, !.perm = permission,
                          !.callReg = notificationTimeoutsRef,
                          !.effect = TRUE, !.effectEmits = r.st.emits,
                          !.prev = checkIntervalRef, !.h = r.st.ref]
  /\ loading' = FALSE
  /\ UNCHANGED <<envVars, mounted, permission, clockVars, sweepStopped, rsPermission,
                 rsNotificationTimeoutsRef>>

\* deleteItem(id) succeeds: setItems(prev.filter(...)), and the effect runs
DeleteItem ==
  /\ mounted
  /\ \E k \in 1..Len(revisionItems) :
       LET id == revisionItems[k].id
           d == deleteItem(St, revisionItems, id)
           its == d.items
           r == afterRender(d.st, TRUE, stopFnIssued, permission, its, now)
       IN /\ CommitWithin(r.st, MaxHookHandles)
          /\ revisionItems' = its
          /\ stopFnIssued' = r.cleanup
          /\ lastOp' = [Op("deleteItem") EXCEPT
                          !.id = id, !.items = its, !.perm = permission,
                          !.callReg = d.st.reg,
                          !.effect = TRUE, !.effectEmits = r.st.emits,
                          !.prev = checkIntervalRef, !.h = r.st.ref]
  /\ UNCHANGED <<envVars, mounted, permission, clockVars, sweepStopped, loading,
                 rsPermission, rsNotificationTimeoutsRef>>

\* enableNotifications(): requestPermission resolves, scheduleAllNotifications
\* is called from the render enableNotifications was made in, and the effect
\* runs when the permission has changed
EnableNotifications ==
  /\ mounted
  /\ IF hasNotification
     THEN \E result \in (IF hostPermission = "default" THEN Perms ELSE {hostPermission}) :
            LET call == IF result = "granted"
                        THEN scheduleAllNotifications(St, permission, revisionItems, now)
                        ELSE St
                r == afterRender([call EXCEPT !.emits = <<>>], result # permission,
                                 stopFnIssued, result, revisionItems, now)
            IN /\ CommitWithin(r.st, MaxHookHandles)
               /\ hostPermission' = result
               /\ permission' = result
               /\ stopFnIssued' = r.cleanup
               /\ lastOp' = [Op("enableNotifications") EXCEPT
                               !.result = result, !.items = revisionItems,
                               !.perm = permission, !.emits = call.emits,
                               !.callReg = call.reg,
                               !.effect = (result # permission),
                               !.effectEmits = r.st.emits,
                               !.prev = checkIntervalRef, !.h = r.st.ref]
     ELSE /\ UNCHANGED <<hostPermission, permission, stopFnIssued, checkIntervalRef,
                         notificationTimeoutsRef, hostVars, retired>>
          /\ lastOp' = [Op("enableNotifications") EXCEPT
                          !.result = "denied", !.items = revisionItems,
                          !.perm = permission, !.callReg = notificationTimeoutsRef]
  /\ UNCHANGED <<hasNotification, mounted, clockVars, sweepStopped, pageVars>>

\* the component that uses useRevisionItems unmounts: the cleanup of the
\* effect on [items, permission] runs, if the effect returned one
Unmount ==
  /\ mounted
  /\ LET s == IF stopFnIssued THEN stopChecking(St) ELSE St
     IN /\ Assign(s)
        /\ lastOp' = [Op("unmount") EXCEPT
                        !.prev = checkIntervalRef, !.count = getScheduledCount,
                        !.callReg = notificationTimeoutsRef]
  /\ mounted' = FALSE
  /\ stopFnIssued' = FALSE
  /\ UNCHANGED <<envVars, permission, clockVars, sweepStopped, pageVars>>

\* time passes, also after the unmount
HookAdvance ==
  /\ mounted \/ lastOp.op \in {"unmount", "fireTimeout", "fireInterval"}
  /\ advances < MaxAdvances
  /\ \E d \in SweepSteps : now' = now + d
  /\ advances' = advances + 1
  /\ lastOp' = [Op("advance") EXCEPT !.result = IF mounted THEN "" ELSE "unmounted"]
  /\ UNCHANGED <<envVars, hookVars, hostVars, retired, sweepStopped, pageVars>>

\* a pending reminder timer comes due and its callback runs
FireTimeout ==
  \E tm \in hostTimeouts :
    /\ tm.due <= now
    /\ LET s == timeoutCallback([St EXCEPT !.timeouts = @ \ {tm}], tm)
       IN /\ Assign(s)
          /\ lastOp' = [Op("fireTimeout") EXCEPT
                          !.id = tm.id, !.h = tm.h, !.perm = tm.perm, !.emits = s.emits]
    /\ Frame /\ UNCHANGED <<stopFnIssued, sweepStopped>>

\* the periodic check comes due and its callback runs
FireInterval ==
  \E iv \in hostIntervals :
    /\ iv.due <= now
    /\ LET rearmed == (hostIntervals \ {iv}) \cup {[iv EXCEPT !.due = now + CheckPeriod]}
           s == checkOverdueItems([St EXCEPT !.intervals = rearmed], iv.perm, iv.items, now)
       IN /\ Assign(s)
          /\ lastOp' = [Op("fireInterval") EXCEPT
                          !.items = iv.items, !.perm = iv.perm, !.h = iv.h,
                          !.ret = overdueItems(iv.items, now), !.emits = s.emits]
    /\ Frame /\ UNCHANGED <<stopFnIssued, sweepStopped>>

\* the periodic check runs on time: the clock reaches the instant the
\* interval is due at and its callback runs
Tick ==
  /\ advances < MaxTicks
  /\ \E iv \in hostIntervals :
       /\ iv.due > now
       /\ now' = iv.due
       /\ LET rearmed == (hostIntervals \ {iv}) \cup {[iv EXCEPT !.due = iv.due + CheckPeriod]}
              s == checkOverdueItems([St EXCEPT !.intervals = rearmed], iv.perm, iv.items, iv.due)
          IN /\ Assign(s)
             /\ lastOp' = [Op("tick") EXCEPT
                             !.items = iv.items, !.perm = iv.perm, !.h = iv.h,
                             !.ret = overdueItems(iv.items, iv.due), !.emits = s.emits,
                             !.count = (IF lastOp.op = "tick" /\ lastOp.h = iv.h
                                        THEN lastOp.count ELSE 0) + 1]
  /\ advances' = advances + 1
  /\ UNCHANGED <<envVars, mounted, permission, stopFnIssued, sweepStopped, pageVars>>

\* time passes
AdvanceBy(steps) ==
  /\ mounted
  /\ advances < MaxAdvances
  /\ \E d \in steps : now' = now + d
  /\ advances' = advances + 1
  /\ lastOp' = Op("advance")
  /\ UNCHANGED <<envVars, hookVars, hostVars, retired, sweepStopped, pageVars>>

\* until a reminder timer is due
Advance == AdvanceBy(TimerSteps)

\* until the periodic check or a reminder timer is due
SweepAdvance == AdvanceBy(SweepSteps)

\* the registry: scheduling, cancelling and firing of per-item timers
Next ==
  \/ MountEffect
  \/ CallRequestPermission
  \/ HostPermissionChange
  \/ CallShowNotification
  \/ CallScheduleNotification
  \/ CallCancelNotification
  \/ CallScheduleRevisionReminder
  \/ CallStopAllNotifications
  \/ FireTimeout
  \/ Advance

Spec == Init /\ [][Next]_vars

\* the sweeper: periodic and manual checks for overdue items, next to
\* per-item timers
SweepNext ==
  \/ MountEffect
  \/ CallRequestPermission
  \/ SweepScheduleRevisionReminder
  \/ CallCheckOverdueItems
  \/ CallStartPeriodicCheck
  \/ CallStopChecking
  \/ CallStopAllNotifications
  \/ FireTimeout
  \/ FireInterval
  \/ SweepAdvance

SweepSpec == Init /\ [][SweepNext]_vars

\* cancelling and firing of per-item timers next to an armed periodic check
CancelNext ==
  \/ MountEffect
  \/ CallRequestPermission
  \/ CallScheduleNotification
  \/ CallCancelNotification
  \/ CallStartPeriodicCheck
  \/ FireTimeout
  \/ Advance

CancelSpec == Init /\ [][CancelNext]_vars

\* until the first interval or the day of a fresh reminder has passed
ReviewAdvance == AdvanceBy(ReviewSteps)

\* the revision page: items are fetched, submitted and marked as reviewed
ReviewNext ==
  \/ RevisionSystemMount
  \/ RsRequestPermission
  \/ FetchItems
  \/ HandleSubmit
  \/ HandleReview
  \/ FireTimeout
  \/ ReviewAdvance

ReviewSpec == Init /\ [][ReviewNext]_vars

\* the periodic check ticking on time, period after period
TickNext ==
  \/ MountEffect
  \/ CallRequestPermission
  \/ CallStartPeriodicCheck
  \/ CallStopChecking
  \/ Tick

TickSpec == Init /\ [][TickNext]_vars

\* the item hook: the effect on [items, permission], enableNotifications,
\* deleteItem and the unmount
HookNext ==
  \/ HookMount
  \/ HookFetchItems
  \/ DeleteItem
  \/ EnableNotifications
  \/ Unmount
  \/ FireTimeout
  \/ FireInterval
  \/ HookAdvance

HookSpec == Init /\ [][HookNext]_vars

TypeOK ==
  /\ permission \in Perms
  /\ nextHandle \in 1..(MaxHandles + 1)
  /\ \A i \in Ids : notificationTimeoutsRef[i] \in 0..MaxHandles

\* ---------------------------------------------------------------- claims
TimersOf(id) == {tm \in hostTimeouts : tm.id = id}
PendingIds == {i \in Ids : notificationTimeoutsRef[i] # NoTimeout}

\* the call recorded in op, made at time t, was scheduleRevisionReminder with
\* permission granted for a next review in (t, t + 7 days]
Deferred(op, t) ==
  /\ op.op = "scheduleRevisionReminder"
  /\ op.perm = "granted"
  /\ op.nr.kind = "iso"
  /\ op.nr.t - t > 0
  /\ op.nr.t - t <= 604800

\* the items whose next-review instant is present and <= t, in input order
DueItems(items, t) ==
  SelectSeq(items, LAMBDA item : item.next_review.kind = "iso" /\ item.next_review.t <= t)
TagsOf(items) == [k \in 1..Len(items) |-> items[k].id]

\* C1: in every reachable state each item id has at most one armed host timer,
\* and that timer is the one the registry holds for the id: a timer replaced
\* by a later schedule call is no longer armed.
C1_OneTimerPerId ==
  \A id \in Ids :
    /\ Cardinality(TimersOf(id)) <= 1
    /\ \A tm \in TimersOf(id) : tm.h = notificationTimeoutsRef[id]

C1_Witness ==
  /\ lastOp.op \in {"scheduleNotification", "scheduleRevisionReminder"}
  /\ lastOp.prev # NoTimeout
  /\ lastOp.h \notin {NoTimeout, lastOp.prev}
  /\ Cardinality(TimersOf(lastOp.id)) = 1

\* C2: with permission granted, a second scheduleRevisionReminder for the same
\* id, right after a first one, both with next reviews inside the horizon and
\* different delays, leaves exactly one pending timer for the id, due after
\* the second delay; the first timer is retired, and no retired timer ever
\* fires.
C2_Reschedule ==
  [][/\ (/\ Deferred(lastOp, now)
         /\ Deferred(lastOp', now')
         /\ lastOp'.id = lastOp.id
         /\ lastOp'.nr # lastOp.nr)
        => /\ Cardinality({tm \in hostTimeouts' : tm.id = lastOp'.id}) = 1
           /\ \A tm \in hostTimeouts' :
                tm.id = lastOp'.id
                  => /\ tm.h = notificationTimeoutsRef'[lastOp'.id]
                     /\ tm.h # lastOp.h
                     /\ tm.due = now' + (lastOp'.nr.t - now')
           /\ lastOp.h \in retired'
     /\ lastOp'.op = "fireTimeout" => lastOp'.h \notin retired]_vars

C2_Witness ==
  /\ Deferred(lastOp, now)
  /\ lastOp.prev # NoTimeout
  /\ lastOp.prev \in retired
  /\ lastOp.prevDue \notin {0, lastOp.nr.t}
  /\ PendingDue(lastOp.id) = lastOp.nr.t

\* C3: with permission granted, scheduleRevisionReminder for a next review that
\* is present and <= now emits exactly one notification, tagged with the item
\* id, and leaves the registry and the armed timers as they were.
C3_Immediate ==
  [][(/\ lastOp'.op = "scheduleRevisionReminder"
      /\ lastOp'.perm = "granted"
      /\ lastOp'.nr.kind = "iso"
      /\ lastOp'.nr.t <= now')
       => /\ lastOp'.emits = <<lastOp'.id>>
          /\ notificationTimeoutsRef' = notificationTimeoutsRef
          /\ hostTimeouts' = hostTimeouts]_vars

C3_Witness ==
  /\ lastOp.op = "scheduleRevisionReminder"
  /\ lastOp.perm = "granted"
  /\ lastOp.nr = Iso(now)
  /\ lastOp.emits = <<lastOp.id>>
  /\ lastOp.h = NoTimeout

\* C4: with permission granted, scheduleRevisionReminder for a next review in
\* (now, now + 7 days] leaves exactly one pending timer for the id, registered
\* under the id, whose delay is nextReview - now, and emits nothing.
C4_Deferred ==
  Deferred(lastOp, now)
    => /\ Cardinality(TimersOf(lastOp.id)) = 1
       /\ \A tm \in TimersOf(lastOp.id) :
            /\ tm.h = notificationTimeoutsRef[lastOp.id]
            /\ tm.due - now = lastOp.nr.t - now
       /\ lastOp.emits = <<>>

C4_Witness ==
  /\ Deferred(lastOp, now)
  /\ lastOp.nr.t - now = 604800
  /\ PendingDue(lastOp.id) = now + 604800

\* C5: after scheduleRevisionReminder for a next review more than 7 days away,
\* whatever the registry held before, no timer is pending for the id and the
\* call emitted nothing.
C5_SuppressedLeavesNoTimer ==
  (/\ lastOp.op = "scheduleRevisionReminder"
   /\ lastOp.nr.kind = "iso"
   /\ lastOp.nr.t - now > 604800)
    => /\ notificationTimeoutsRef[lastOp.id] = NoTimeout
       /\ TimersOf(lastOp.id) = {}
       /\ lastOp.emits = <<>>

\* C6: stopAllNotifications leaves no pending timer (the count is 0), no armed
\* host timer and no armed periodic check; no timer that was pending before
\* the call fires afterwards, and no periodic check runs until
\* startPeriodicCheck is called again.
C6_StopAll ==
  [][/\ lastOp'.op = "stopAllNotifications"
          => /\ Cardinality({i \in Ids : notificationTimeoutsRef'[i] # NoTimeout}) = 0
             /\ hostTimeouts' = {}
             /\ hostIntervals' = {}
             /\ {tm.h : tm \in hostTimeouts} \subseteq retired'
     /\ lastOp'.op = "fireTimeout" => lastOp'.h \notin retired
     /\ lastOp'.op = "fireInterval" => ~sweepStopped]_vars

C6_Witness ==
  /\ lastOp.op = "stopAllNotifications"
  /\ lastOp.prev # NoTimeout
  /\ lastOp.count > 0
  /\ retired # {}

\* C7: in every reachable state at most one periodic check is armed, and it is
\* the one checkIntervalRef holds.
C7_OneSweeper ==
  /\ Cardinality(hostIntervals) <= 1
  /\ \A iv \in hostIntervals : iv.h = checkIntervalRef

C7_Witness ==
  /\ lastOp.op = "startPeriodicCheck"
  /\ lastOp.prev # NoTimeout
  /\ lastOp.h # lastOp.prev
  /\ Cardinality(hostIntervals) = 1

\* C8: with permission granted, the immediate pass of startPeriodicCheck emits
\* one notification for each item whose next review is <= now, none for any
\* other item, and leaves the registry and the armed timers as they were.
C8_ImmediatePass ==
  [][(/\ lastOp'.op = "startPeriodicCheck"
      /\ lastOp'.perm = "granted")
       => /\ lastOp'.emits = TagsOf(DueItems(lastOp'.items, now'))
          /\ notificationTimeoutsRef' = notificationTimeoutsRef
          /\ hostTimeouts' = hostTimeouts]_vars

C8_Witness ==
  /\ lastOp.op = "startPeriodicCheck"
  /\ lastOp.perm = "granted"
  /\ Len(lastOp.items) = 2
  /\ Len(lastOp.emits) = 1
  /\ PendingIds # {}

\* C9: checkOverdueItems returns the items whose next review is <= now, in
\* input order, and with permission granted emits once per returned item,
\* tagged with its id.
C9_CheckOverdue ==
  lastOp.op = "checkOverdueItems"
    => /\ lastOp.ret = DueItems(lastOp.items, now)
       /\ lastOp.perm = "granted" => lastOp.emits = TagsOf(lastOp.ret)

C9_Witness ==
  /\ lastOp.op = "checkOverdueItems"
  /\ lastOp.perm = "granted"
  /\ Len(lastOp.items) = 2
  /\ lastOp.ret = <<lastOp.items[2]>>
  /\ lastOp.items[2].next_review = Iso(now)
  /\ lastOp.emits = <<lastOp.items[2].id>>

\* C10: while the permission is not granted, scheduleRevisionReminder and
\* scheduleNotification emit nothing, install no timer and leave the registry
\* and the armed timers unchanged, a timer pending for the id included.
C10_Ungranted ==
  [][(/\ lastOp'.op \in {"scheduleRevisionReminder", "scheduleNotification"}
      /\ lastOp'.perm # "granted")
       => /\ lastOp'.emits = <<>>
          /\ UNCHANGED <<notificationTimeoutsRef, hostTimeouts, hostIntervals,
                         checkIntervalRef, nextHandle>>]_vars

C10_Witness ==
  /\ lastOp.op \in {"scheduleRevisionReminder", "scheduleNotification"}
  /\ lastOp.perm # "granted"
  /\ notificationTimeoutsRef[lastOp.id] # NoTimeout
  /\ TimersOf(lastOp.id) # {}

\* C11: while the permission is not granted, startPeriodicCheck(items) does
\* nothing: it emits no notification and arms no periodic check, so the
\* armed intervals, the interval reference and the host's handles are as
\* they were before the call.
C11_UngrantedSweepNoOp ==
  [][(/\ lastOp'.op = "startPeriodicCheck"
      /\ lastOp'.perm # "granted")
       => /\ lastOp'.emits = <<>>
          /\ UNCHANGED <<hostIntervals, checkIntervalRef, nextHandle>>]_vars

\* C12: with permission granted, scheduleRevisionReminder for a next-review
\* value that is absent (undefined, null) or unparseable emits one
\* notification for the item during the call, as it does for an overdue item.
C12_MalformedIsImmediate ==
  (/\ lastOp.op = "scheduleRevisionReminder"
   /\ lastOp.perm = "granted"
   /\ lastOp.nr.kind \in {"undefined", "null", "garbage"})
    => lastOp.emits = <<lastOp.id>>

\* the items of a list whose next-review value is absent, in input order
AbsentItems(items) ==
  SelectSeq(items, LAMBDA item : item.next_review.kind \in {"undefined", "null"})

\* C13: an item whose next-review instant is absent counts as due in a sweep:
\* checkOverdueItems and every pass of the periodic check have it in the
\* overdue subset they compute and, with permission granted, emit for it.
C13_AbsentIsDue ==
  lastOp.op \in {"checkOverdueItems", "startPeriodicCheck", "fireInterval"}
    => \A k \in 1..Len(AbsentItems(lastOp.items)) :
         LET item == AbsentItems(lastOp.items)[k]
         IN /\ lastOp.op # "startPeriodicCheck"
                 => \E j \in 1..Len(lastOp.ret) : lastOp.ret[j] = item
            /\ lastOp.perm = "granted"
                 => \E j \in 1..Len(lastOp.emits) : lastOp.emits[j] = item.id

\* C14: when the host has no Notification capability, the permission the
\* hook reports is "denied", both as the value requestPermission resolves to
\* and as the permission it exposes.
C14_NoCapabilityIsDenied ==
  (/\ lastOp.op = "requestPermission"
   /\ ~hasNotification)
    => /\ lastOp.result = "denied"
       /\ permission = "denied"

\* C15: a pending timer that fires emits exactly one notification, tagged
\* with its item id, and removes its own entry from the registry: the timer
\* that fires is the one registered for the id, after the fire the id has no
\* registry entry and no armed timer, the number of pending timers is one
\* less, and every other id keeps its entry.
C15_FireRemovesItself ==
  [][lastOp'.op = "fireTimeout"
       => /\ lastOp'.emits = <<lastOp'.id>>
          /\ notificationTimeoutsRef[lastOp'.id] = lastOp'.h
          /\ notificationTimeoutsRef'[lastOp'.id] = NoTimeout
          /\ {tm \in hostTimeouts' : tm.id = lastOp'.id} = {}
          /\ getScheduledCount' = getScheduledCount - 1
          /\ \A j \in Ids \ {lastOp'.id} :
               notificationTimeoutsRef'[j] = notificationTimeoutsRef[j]]_vars

C15_Witness ==
  /\ lastOp.op = "fireTimeout"
  /\ lastOp.emits = <<lastOp.id>>
  /\ notificationTimeoutsRef[lastOp.id] = NoTimeout
  /\ getScheduledCount = 1
  /\ \E tm \in hostTimeouts : tm.id # lastOp.id

\* C16: cancelNotification(id) on an id with a pending timer removes the
\* registry entry and disarms the timer, whose callback never runs
\* afterwards; the entry and the armed timer of every other id are as before.
C16_CancelPending ==
  [][/\ (/\ lastOp'.op = "cancelNotification"
         /\ lastOp'.prev # NoTimeout)
          => /\ notificationTimeoutsRef'[lastOp'.id] = NoTimeout
             /\ lastOp'.prev \in retired'
             /\ hostTimeouts' = {tm \in hostTimeouts : tm.id # lastOp'.id}
             /\ \A j \in Ids \ {lastOp'.id} :
                  notificationTimeoutsRef'[j] = notificationTimeoutsRef[j]
     /\ lastOp'.op = "fireTimeout" => lastOp'.h \notin retired]_vars

C16_Witness ==
  /\ lastOp.op = "cancelNotification"
  /\ lastOp.prev # NoTimeout
  /\ notificationTimeoutsRef[lastOp.id] = NoTimeout
  /\ \E j \in Ids \ {lastOp.id} :
       /\ notificationTimeoutsRef[j] # NoTimeout
       /\ TimersOf(j) # {}

\* C17: cancelNotification(id) on an id that has no pending timer changes
\* nothing: the registry and the armed timers, the periodic check and its
\* reference, and the permission are as they were before the call.
C17_CancelUnknown ==
  [][(/\ lastOp'.op = "cancelNotification"
      /\ lastOp'.prev = NoTimeout)
       => UNCHANGED <<notificationTimeoutsRef, hostTimeouts, hostIntervals,
                      checkIntervalRef, nextHandle, retired, permission,
                      hostPermission>>]_vars

C17_Witness ==
  /\ lastOp.op = "cancelNotification"
  /\ lastOp.prev = NoTimeout
  /\ PendingIds # {}
  /\ hostTimeouts # {}
  /\ hostIntervals # {}
  /\ checkIntervalRef # NoTimeout
  /\ permission = "granted"

\* C19: the interval handleReview looks up for an item is the entry of the
\* table {1 h, 1 day, 3 days, 1 week, 2 weeks} at its review count, and the
\* last entry for every review count of 4 or more: 1 h for 0, 1 week for 3,
\* 2 weeks from 4 on.
C19_IntervalLookup ==
  lastOp.op = "handleReview"
    => lastOp.delay = (CASE lastOp.count = 0 -> 60 * 60
                         [] lastOp.count = 1 -> 24 * 60 * 60
                         [] lastOp.count = 2 -> 3 * 24 * 60 * 60
                         [] lastOp.count = 3 -> 7 * 24 * 60 * 60
                         [] OTHER -> 14 * 24 * 60 * 60)

C19_Witness ==
  /\ lastOp.op = "handleReview"
  /\ lastOp.count > 4
  /\ lastOp.delay = 14 * 24 * 60 * 60

\* C18: after handleReview of an item with review count n, with the
\* permission granted to the hook and to the page, the item's next_review is
\* now + the interval looked up for n, and exactly one timer is pending for
\* the item, due after that interval (for n = 0: after one hour).
C18_ReviewSchedulesInterval ==
  (/\ lastOp.op = "handleReview"
   /\ lastOp.perm = "granted"
   /\ lastOp.rsPerm = "granted")
    => /\ lastOp.nr = Iso(now + lastOp.delay)
       /\ \A k \in 1..Len(revisionItems) :
            revisionItems[k].id = lastOp.id
              => revisionItems[k].next_review = Iso(now + lastOp.delay)
       /\ Cardinality(TimersOf(lastOp.id)) = 1
       /\ \A tm \in TimersOf(lastOp.id) : tm.due = now + lastOp.delay

\* C20: when handleSubmit creates an item with a first-reminder delay of m
\* minutes (1 <= m <= 1440) and the permission is granted to the hook and to
\* the page, a reminder for the new item is pending that is due m minutes
\* after the creation.
C20_FirstReminderAfterDelay ==
  (/\ lastOp.op = "handleSubmit"
   /\ lastOp.perm = "granted"
   /\ lastOp.rsPerm = "granted")
    => \E tm \in hostTimeouts :
         /\ tm.id = lastOp.id
         /\ tm.due = now + lastOp.delay

\* C21: while a periodic check started with permission granted stays armed,
\* each tick comes 5 minutes after the start or the tick before it, sweeps
\* the items the check was started with and emits once for every item that
\* is overdue at that tick, whether or not an earlier pass emitted for it.
C21_TickRenotifies ==
  [][(/\ lastOp'.op = "tick"
      /\ lastOp.op \in {"startPeriodicCheck", "tick"}
      /\ lastOp.h = lastOp'.h
      /\ lastOp.perm = "granted")
       => /\ now' = now + 5 * 60
          /\ lastOp'.items = lastOp.items
          /\ lastOp'.emits = TagsOf(DueItems(lastOp.items, now'))]_vars

C21_Witness ==
  /\ lastOp.op = "tick"
  /\ lastOp.perm = "granted"
  /\ lastOp.count = 3
  /\ now = StartTime + 3 * 5 * 60
  /\ Len(lastOp.items) = 2
  /\ lastOp.items[1].next_review = Iso(StartTime - 600)
  /\ lastOp.items[2].next_review = Iso(StartTime + 7200)
  /\ lastOp.emits = <<"A">>

\* C22: the permission that decides whether a notification is constructed is
\* the host's permission at that moment: a reminder timer that comes due
\* while the host's permission is not granted emits nothing.
C22_FreshPermissionAtFire ==
  (/\ lastOp.op = "fireTimeout"
   /\ hostPermission # "granted")
    => lastOp.emits = <<>>

\* the number of notifications in emits that carry the tag id
CountOf(id, emits) == Cardinality({k \in 1..Len(emits) : emits[k] = id})

C24_TeardownReleasesAll ==
  (/\ ~mounted
   /\ lastOp.op # "init")
    => /\ hostTimeouts = {}
       /\ hostIntervals = {}
       /\ lastOp.op \notin {"fireTimeout", "fireInterval"}

\* C25: when requestPermission resolves to "granted" inside
\* enableNotifications, the scheduleAllNotifications call that follows leaves
\* a registered timer for every item whose next review lies in
\* (now, now + 7 days] and emits once for every item overdue now.
C25_EnableSchedulesAll ==
  (/\ lastOp.op = "enableNotifications"
   /\ lastOp.result = "granted")
    => \A k \in 1..Len(lastOp.items) :
         LET item == lastOp.items[k]
             delay == item.next_review.t - now
         IN item.next_review.kind = "iso"
              => /\ (delay > 0 /\ delay <= 604800) => lastOp.callReg[item.id] # NoTimeout
                 /\ delay <= 0 => CountOf(item.id, lastOp.emits) = 1

\* C26: the timer scheduleNotification installs is due after the delay it
\* was given, or after the longest delay the host timer represents
\* (2^31 - 1 ms) when the delay given is longer; and the timer
\* scheduleRevisionReminder installs is due after more than 0 and at most
\* 7 days.
C26_DelayWithinHostLimit ==
  (/\ lastOp.op \in {"scheduleNotification", "scheduleRevisionReminder"}
   /\ lastOp.perm = "granted")
    => \A tm \in hostTimeouts :
         tm.h = lastOp.h
           => IF lastOp.op = "scheduleNotification"
              THEN tm.due - now = (IF lastOp.delay > 2147483 THEN 2147483 ELSE lastOp.delay)
              ELSE tm.due - now > 0 /\ tm.due - now <= 604800

\* C27: in every state the ids with an entry in notificationTimeoutsRef are
\* exactly the ids with a live host timer, the entry of an id is the handle
\* of its one live timer, and getScheduledCount() is the number of live
\* timers.
C27_CountIsLiveTimers ==
  /\ \A i \in Ids :
       /\ notificationTimeoutsRef[i] # NoTimeout <=> TimersOf(i) # {}
       /\ \A tm \in TimersOf(i) : tm.h = notificationTimeoutsRef[i]
  /\ \A tm1, tm2 \in hostTimeouts : tm1.h = tm2.h => tm1 = tm2
  /\ getScheduledCount = Cardinality(hostTimeouts)

\* one of two pending timers has fired: one entry and one live timer are left
C27_Witness ==
  /\ lastOp.op = "fireTimeout"
  /\ getScheduledCount = 1
  /\ Cardinality(hostTimeouts) = 1

\* the last operation was scheduleRevisionReminder, with the permission
\* granted, for an item that is due and has a timer pending
ImmediateOverPending(op) ==
  /\ op.op = "scheduleRevisionReminder"
  /\ op.perm = "granted"
  /\ op.prev # NoTimeout
  /\ Leq(Sub(DateGetTime(op.nr), Num(now)), Num(0))

\* C28: scheduleRevisionReminder for an item that is due and has a timer
\* pending notifies at once and leaves the registry as it was: the entry,
\* the pending count and the pending timer with its fire time stay; and when
\* that timer fires next, it notifies for the item a second time.
C28_ImmediateKeepsPending ==
  [][/\ (ImmediateOverPending(lastOp') /\ hasNotification)
        => /\ notificationTimeoutsRef' = notificationTimeoutsRef
           /\ hostTimeouts' = hostTimeouts
           /\ Cardinality(PendingIds') = Cardinality(PendingIds)
           /\ \E tm \in hostTimeouts' :
                tm.h = lastOp'.prev /\ tm.id = lastOp'.id /\ tm.due = lastOp'.prevDue
           /\ lastOp'.emits = <<lastOp'.id>>
     /\ (/\ ImmediateOverPending(lastOp) /\ hasNotification
         /\ lastOp'.op = "fireTimeout" /\ lastOp'.h = lastOp.prev)
        => /\ lastOp'.emits = <<lastOp.id>>
           /\ notificationTimeoutsRef'[lastOp.id] = NoTimeout]_vars

\* the item was due, had a timer pending, was notified at once, and its
\* timer is still pending and has come due
C28_Witness ==
  /\ ImmediateOverPending(lastOp)
  /\ lastOp.emits = <<lastOp.id>>
  /\ notificationTimeoutsRef[lastOp.id] = lastOp.prev
  /\ \E tm \in hostTimeouts : tm.h = lastOp.prev /\ tm.due <= now

\* C29: the cleanup function startPeriodicCheck returns clears the interval
\* checkIntervalRef holds when it is called, whichever start call armed it,
\* and resets the ref; per-item timers are not touched; called when the ref
\* is empty, after an earlier cleanup call or after stopAllNotifications, it
\* changes nothing.
C29_StopClearsArmed ==
  [][lastOp'.op = "stopChecking"
       => /\ hostIntervals' = {iv \in hostIntervals : iv.h # checkIntervalRef}
          /\ hostIntervals' = {}
          /\ checkIntervalRef' = NoTimeout
          /\ lastOp'.prev = checkIntervalRef
          /\ UNCHANGED <<hostTimeouts, notificationTimeoutsRef, nextHandle>>
          /\ (lastOp.op \in {"stopChecking", "stopAllNotifications"} \/ sweepStopped)
               => /\ checkIntervalRef = NoTimeout
                  /\ UNCHANGED <<hostIntervals, checkIntervalRef>>]_vars

\* startPeriodicCheck ran twice in a row, the second call replaced the
\* interval of the first, and a cleanup call then cleared the second interval
C29_Witness ==
  /\ lastOp.op = "stopChecking"
  /\ lastOp.count >= 2
  /\ lastOp.prev # NoTimeout
  /\ hostIntervals = {}
  /\ checkIntervalRef = NoTimeout

\* the ids of the items of a list
IdsIn(items) == {items[k].id : k \in 1..Len(items)}

\* C30: deleteItem(id) takes the item out of the list and leaves the
\* registry as it was; after the effect has run again on the new list the
\* entry and the timer of the deleted item are still those it had, and the
\* periodic check that was restarted does not cover the item; and when the
\* timer of an item that is no longer in the list fires, it notifies for it.
C30_DeleteKeepsTimer ==
  [][/\ lastOp'.op = "deleteItem"
        => /\ lastOp'.id \notin IdsIn(revisionItems')
           /\ lastOp'.callReg = notificationTimeoutsRef
           /\ notificationTimeoutsRef'[lastOp'.id] = notificationTimeoutsRef[lastOp'.id]
           /\ {tm \in hostTimeouts' : tm.id = lastOp'.id}
                = {tm \in hostTimeouts : tm.id = lastOp'.id}
           /\ \A iv \in hostIntervals' : lastOp'.id \notin IdsIn(iv.items)
     /\ (/\ lastOp'.op = "fireTimeout"
         /\ lastOp'.id \notin IdsIn(revisionItems)
         /\ hasNotification)
        => /\ lastOp'.emits = <<lastOp'.id>>
           /\ \E tm \in hostTimeouts : tm.h = lastOp'.h /\ tm.due <= now]_vars

\* the timer of a deleted item has fired and notified while the hook is
\* mounted and its periodic check runs on the items that are left
C30_Witness ==
  /\ lastOp.op = "fireTimeout"
  /\ lastOp.emits = <<lastOp.id>>
  /\ lastOp.id \notin IdsIn(revisionItems)
  /\ mounted
  /\ Len(revisionItems) > 0
  /\ \E iv \in hostIntervals : iv.h = checkIntervalRef /\ lastOp.id \notin IdsIn(iv.items)


====
